---- MODULE Spec2Model ----
(***************************************************************************)
(* SoundWave backend (src/app.py): a Flask server, run with threaded=True, *)
(* whose handlers call the yt-dlp command line tool.  Shared state is the  *)
(* in-memory dict search_cache and the directory CACHE_DIR of mp3 files.   *)
(*                                                                         *)
(* Spec      the threaded server: search and download requests handled by  *)
(*           concurrent workers, yt-dlp answering nondeterministically.    *)
(* Handlers  one request at a time (playlist, trending, stream, info,      *)
(*           health, the parsing of a search answer, the cache keys of two *)
(*           searches) on longer yt-dlp outputs.                           *)
(*                                                                         *)
(* A track is modelled by its id and duration; title, artist, thumbnail,   *)
(* view_count and url are copied from the same line and are left out.      *)
(***************************************************************************)
EXTENDS Integers, Sequences, FiniteSets, TLC

\* ------------------------------------------------------------- bounds ----
MaxRequests == 3         \* requests the threaded server accepts in a run
MaxTotalLines == 4       \* lines yt-dlp prints over one playlist request
MaxSearchLines == 5      \* lines yt-dlp prints for one search
MaxKeyLen == 2           \* characters of a query whose cache key is taken

\* The request threads alive at once.
Workers == {"w1", "w2"}

\* ------------------------------------------------------------- inputs ----
\* A string is a sequence of one-character strings.
RawQueries ==
    { <<>>, <<" ">>, <<"a">>, <<"a", " ">> }
\* request.args.get("limit"): not given, or the text given.
NoLimit == [given |-> FALSE, text |-> <<>>]
GivenLimit(t) == [given |-> TRUE, text |-> t]
LimitArgs == { NoLimit, GivenLimit(<<"1">>), GivenLimit(<<"x">>) }
Ids == {"x", "y"}
Titles == { <<>>, <<"/">> }
\* Sizes of a file of CACHE_DIR: just created, partly written, complete.
FileSizes == {0, 10000, 10001}

\* --------------------------------------------------- yt-dlp's answers ----
\* One line of yt-dlp's --dump-json output.  duration is <<>> when the key
\* is missing or null, <<d>> otherwise.
JsonLine(i, d) == [kind |-> "json", id |-> i, duration |-> d]
Malformed == [kind |-> "malformed", id |-> "", duration |-> <<>>]
Blank == [kind |-> "blank", id |-> "", duration |-> <<>>]
\* A line that is JSON but no object (a number, null, a list): json.loads
\* accepts it and data.get raises AttributeError.
NotObject == [kind |-> "value", id |-> "", duration |-> <<>>]

SeqsUpTo(S, n) == UNION { [1 .. k -> S] : k \in 0 .. n }

\* What run_ytdlp hands back: a completed process, or an exception.
Completed(rc, out) == [exc |-> "", returncode |-> rc, stdout |-> out]
Raised(e) == [exc |-> e, returncode |-> 0, stdout |-> <<>>]
FakeResult == Completed(1, <<>>)

run_ytdlp(found, outs) ==
    IF ~found
    THEN {FakeResult}
    ELSE { Completed(rc, o) : rc \in {0, 1}, o \in outs }
         \cup { Raised("TimeoutExpired"), Raised("FileNotFoundError") }

\* ------------------------------------------------------ pure helpers ----
Digit(d) == <<"0", "1", "2", "3", "4", "5", "6", "7", "8", "9">>[d + 1]

RECURSIVE NatStr(_)
NatStr(n) == IF n < 10 THEN <<Digit(n)>>
             ELSE NatStr(n \div 10) \o <<Digit(n % 10)>>

DigitValue(c) == CHOOSE d \in 0 .. 9 : Digit(d) = c
IsDigit(c) == \E d \in 0 .. 9 : Digit(d) = c

RECURSIVE NatValue(_)
NatValue(t) == IF t = <<>> THEN 0
               ELSE 10 * NatValue(SubSeq(t, 1, Len(t) - 1))
                    + DigitValue(t[Len(t)])

DefaultLimit == 10

\* int(request.args.get("limit", 10)), over texts of digits and letters:
\* the number, or ValueError.
ParseLimit(l) ==
    IF ~l.given THEN [ok |-> TRUE, value |-> DefaultLimit]
    ELSE IF l.text # <<>> /\ \A i \in 1 .. Len(l.text) : IsDigit(l.text[i])
    THEN [ok |-> TRUE, value |-> NatValue(l.text)]
    ELSE [ok |-> FALSE, value |-> 0]

IntStr(n) == IF n < 0 THEN <<"-">> \o NatStr(0 - n) ELSE NatStr(n)

\* The whitespace of the texts modelled: the blank and the line end.
Whitespace == {" ", "\n"}

RECURSIVE LStrip(_)
LStrip(s) == IF s # <<>> /\ s[1] \in Whitespace THEN LStrip(Tail(s)) ELSE s

RECURSIVE RStrip(_)
RStrip(s) == IF s # <<>> /\ s[Len(s)] \in Whitespace
             THEN RStrip(SubSeq(s, 1, Len(s) - 1)) ELSE s

\* str.strip()
Strip(s) == RStrip(LStrip(s))

\* The key without its separator.
cache_key_unseparated(query, limit) == query \o IntStr(limit)

\* f"{query}_{limit}"
cache_key(query, limit) == query \o <<"_">> \o IntStr(limit)

\* data.get("duration", 0) or 0
Duration(data) == IF data.duration = <<>> THEN 0 ELSE data.duration[1]

\* f"{int(duration//60)}:{int(duration%60):02d}" if duration else "?"
MinSec(d) ==
    NatStr(d \div 60) \o <<":">>
    \o <<Digit((d % 60) \div 10), Digit((d % 60) % 10)>>

\* ... if duration else "?"
DurationStr(d) == IF d = 0 THEN <<"?">> ELSE MinSec(d)

SearchTooLong == 600

SearchSong(data) ==
    [id |-> data.id, duration |-> Duration(data),
     duration_str |-> DurationStr(Duration(data))]

\* The kept tracks, last printed first.
SearchSongsReversed(lines) ==
    LET keep == SelectSeq(lines, LAMBDA l :
                    l.kind = "json" /\ Duration(l) <= SearchTooLong)
    IN  [i \in 1 .. Len(keep) |-> SearchSong(keep[Len(keep) + 1 - i])]

\* The loop over result.stdout.strip().split("\n") of search(), on lines
\* none of which is a NotObject (SearchOutcome takes that case).
RECURSIVE SearchSongs(_)
SearchSongs(lines) ==
    IF lines = <<>> THEN <<>>
    ELSE LET line == Head(lines)
             rest == SearchSongs(Tail(lines))
         IN  IF line.kind # "json" THEN rest
             ELSE IF Duration(line) > SearchTooLong THEN rest
             ELSE <<SearchSong(line)>> \o rest

\* re.sub(r'[^\w\-_\. ]', '_', name), over the characters of Titles.
SanitizeChar(c) == IF c \in {"t", "x", "y", "-", "_", ".", " "} THEN c ELSE "_"
sanitize_filename(name) == [i \in 1 .. Len(name) |-> SanitizeChar(name[i])]

\* ----------------------------------------------------------- responses ----
JsonError(code, msg) == [status |-> code, kind |-> "error", error |-> msg]
Uncaught(e) == [status |-> 500, kind |-> "uncaught", error |-> e]
SearchBody(songs, query) == [results |-> songs, query |-> query]
JsonOk(body) == [status |-> 200, kind |-> "json", body |-> body]
SentFile(size, name) ==
    [status |-> 200, kind |-> "file", size |-> size, download_name |-> name]
NoResponse == [status |-> 0, kind |-> "none"]

\* --------------------------------------------------------------- state ----
VARIABLES
    YTDLP_CMD,      \* TRUE when get_ytdlp_cmd() found the tool at start-up
    search_cache,   \* the dict: cache key -> response body
    files,          \* CACHE_DIR: id -> [exists, size] of <id>.mp3
    pc,             \* per worker: where its handler stands
    op,             \* per worker: the route being handled
    arg,            \* per worker: the request's arguments
    title,          \* per worker: download_audio's local title
    resp,           \* per worker: the response returned
    calls,          \* per worker: the run_ytdlp calls of this request
    prior,          \* per worker: the non-empty results returned for its
                    \*   (query, limit) before the request began
    validAtStart,   \* per worker: the mp3 was valid when the request began
    hist,           \* (query, limit) -> the non-empty result lists returned
    served,         \* the ids a download has returned the local file of
    servedAtStart,  \* per worker: its id was in served when it began
    accepted,       \* requests accepted so far
    job             \* Handlers: the one request being handled; calls
                    \*   are its run_ytdlp calls and printed is every line
                    \*   yt-dlp has printed for it, in order

vars == <<YTDLP_CMD, search_cache, files, pc, op, arg, title, resp, calls,
          prior, validAtStart, hist, served, servedAtStart, accepted, job>>

server == <<search_cache, files, pc, op, arg, title, resp, calls, prior,
            validAtStart, hist, served, servedAtStart, accepted>>

NoFile == [exists |-> FALSE, size |-> 0]
NoArg == [q |-> <<>>, limit |-> NoLimit, id |-> ""]

\* The validity predicate of an audio cache entry.
ValidAudio(f) == f.exists /\ f.size > 10000

IdleJob ==
    [op |-> "none", pc |-> "idle", id |-> "", seeds |-> <<>>, limit |-> 0,
     idx |-> 0, all_songs |-> <<>>, calls |-> <<>>, printed |-> <<>>,
     result |-> FakeResult, pairs |-> <<>>, keys |-> <<>>,
     reply |-> NoResponse]

Queries == { Strip(q) : q \in RawQueries }
Limits == { ParseLimit(l).value : l \in { a \in LimitArgs : ParseLimit(a).ok } }
SearchKeys == Queries \X Limits

\* Lines yt-dlp may print for a search in the threaded server.
SrvLines ==
    { JsonLine("x", <<200>>), JsonLine("y", <<200>>), JsonLine("x", <<700>>),
      Malformed }
SrvStdouts == SeqsUpTo(SrvLines, 1)

Init ==
    /\ YTDLP_CMD \in BOOLEAN
    /\ search_cache = <<>>
    /\ files = [i \in Ids |-> NoFile]
    /\ pc = [w \in Workers |-> "idle"]
    /\ op = [w \in Workers |-> "none"]
    /\ arg = [w \in Workers |-> NoArg]
    /\ title = [w \in Workers |-> <<>>]
    /\ resp = [w \in Workers |-> NoResponse]
    /\ calls = [w \in Workers |-> <<>>]
    /\ prior = [w \in Workers |-> {}]
    /\ validAtStart = [w \in Workers |-> FALSE]
    /\ hist = [k \in SearchKeys |-> {}]
    /\ served = {}
    /\ servedAtStart = [w \in Workers |-> FALSE]
    /\ accepted = 0
    /\ job = IdleJob

\* ------------------------------------------------------------- search ----
\* A worker thread takes GET /api/search?q=..&limit=..
SearchBegin(w, q, limit) ==
    /\ pc[w] = "idle"
    /\ accepted < MaxRequests
    /\ accepted' = accepted + 1
    /\ pc' = [pc EXCEPT ![w] = "search_lookup"]
    /\ op' = [op EXCEPT ![w] = "search"]
    /\ arg' = [arg EXCEPT ![w] = [q |-> q, limit |-> limit, id |-> ""]]
    /\ prior' = [prior EXCEPT ![w] =
           IF ParseLimit(limit).ok
           THEN hist[<<Strip(q), ParseLimit(limit).value>>] ELSE {}]
    /\ UNCHANGED <<YTDLP_CMD, job, served, servedAtStart, search_cache,
                   files, title, resp, calls, validAtStart, hist>>

\* The non-empty result lists a response of search adds to the history.
Returned(h, query, limit, r) ==
    IF r.kind = "json" /\ r.body.results # <<>>
    THEN [h EXCEPT ![<<query, limit>>] = @ \cup {r.body.results}]
    ELSE h

\* search(), lines 89-108: the arguments, the cache lookup, and, on a miss,
\* the start of the yt-dlp search.  A ValueError of int() has no handler.
SearchLookup(w) ==
    /\ pc[w] = "search_lookup"
    /\ LET query == Strip(arg[w].q)
           limit == ParseLimit(arg[w].limit)
           key == cache_key(query, limit.value)
       IN  IF ~limit.ok
           THEN /\ resp' = [resp EXCEPT ![w] = Uncaught("ValueError")]
                /\ pc' = [pc EXCEPT ![w] = "done"]
                /\ UNCHANGED <<calls, hist>>
           ELSE IF query = <<>>
           THEN /\ resp' = [resp EXCEPT
                       ![w] = JsonError(400, "No query provided")]
                /\ pc' = [pc EXCEPT ![w] = "done"]
                /\ UNCHANGED <<calls, hist>>
           ELSE IF key \in DOMAIN search_cache
           THEN /\ resp' = [resp EXCEPT ![w] = JsonOk(search_cache[key])]
                /\ pc' = [pc EXCEPT ![w] = "done"]
                /\ hist' = Returned(hist, query, limit.value,
                                    JsonOk(search_cache[key]))
                /\ UNCHANGED calls
           ELSE /\ pc' = [pc EXCEPT ![w] = "search_call"]
                /\ calls' = [calls EXCEPT ![w] = Append(@, "search")]
                /\ UNCHANGED <<resp, hist>>
    /\ UNCHANGED <<YTDLP_CMD, job, served, servedAtStart, search_cache,
                   files, op, arg, title, prior, validAtStart, accepted>>

\* search(), lines 110-144, run on the answer `result` of run_ytdlp.  Only
\* json.JSONDecodeError is caught inside the loop, so the AttributeError of
\* a NotObject line leaves search() unhandled.
SearchOutcome(query, result) ==
    IF result.exc = "TimeoutExpired"
    THEN JsonError(504, "Search timed out")
    ELSE IF result.exc = "FileNotFoundError"
    THEN JsonError(500, "yt-dlp not installed")
    ELSE IF result.returncode # 0 /\ result.stdout = <<>>
    THEN JsonError(500, "Search failed")
    ELSE IF \E k \in 1 .. Len(result.stdout) : result.stdout[k] = NotObject
    THEN Uncaught("AttributeError")
    ELSE JsonOk(SearchBody(SearchSongs(result.stdout), query))

SearchStore(cache, key, r) ==
    IF r.kind = "json"
    THEN [k \in DOMAIN cache \cup {key} |->
              IF k = key THEN r.body ELSE cache[k]]
    ELSE cache

\* The yt-dlp search of worker w answers and search() runs to its return.
SearchReturn(w) ==
    /\ pc[w] = "search_call"
    /\ \E result \in run_ytdlp(YTDLP_CMD, SrvStdouts) :
           LET query == Strip(arg[w].q)
               limit == ParseLimit(arg[w].limit).value
               key == cache_key(query, limit)
               r == SearchOutcome(query, result)
           IN  /\ search_cache' = SearchStore(search_cache, key, r)
               /\ resp' = [resp EXCEPT ![w] = r]
               /\ hist' = Returned(hist, query, limit, r)
    /\ pc' = [pc EXCEPT ![w] = "done"]
    /\ UNCHANGED <<YTDLP_CMD, job, served, servedAtStart, files, op, arg,
                   title, calls, prior, validAtStart, accepted>>

\* ----------------------------------------------------------- download ----
\* A worker thread takes GET /api/download/<video_id>.
DownloadBegin(w, id) ==
    /\ pc[w] = "idle"
    /\ accepted < MaxRequests
    /\ accepted' = accepted + 1
    /\ pc' = [pc EXCEPT ![w] = "dl_check"]
    /\ op' = [op EXCEPT ![w] = "download"]
    /\ arg' = [arg EXCEPT ![w] = [q |-> <<>>, limit |-> NoLimit, id |-> id]]
    /\ validAtStart' = [validAtStart EXCEPT ![w] = ValidAudio(files[id])]
    /\ servedAtStart' = [servedAtStart EXCEPT ![w] = id \in served]
    /\ UNCHANGED <<YTDLP_CMD, job, served, search_cache, files, title, resp,
                   calls, prior, hist>>

\* cache_file.exists()
CacheFileExists(f) == f.exists

\* A lookup under a name no file of CACHE_DIR has never hits.
ServeFromCacheWrongName(f) == FALSE

\* if cache_file.exists(), line 176: serve from cache.
ServeFromCache(f) == CacheFileExists(f)

\* What one run_ytdlp call of download_audio does to the handler: the
\* exception handling of lines 184 and 218-219.  TimeoutExpired has no
\* handler in download_audio and leaves it as an uncaught exception.
DownloadRaised(e) ==
    IF e = "FileNotFoundError"
    THEN JsonError(500, "yt-dlp not installed")
    ELSE Uncaught(e)

\* download_audio(), lines 173-190: serve <id>.mp3 when it exists, else
\* start the --get-title call.
DownloadCheck(w) ==
    /\ pc[w] = "dl_check"
    /\ IF ServeFromCache(files[arg[w].id])
       THEN /\ resp' = [resp EXCEPT ![w] =
                   SentFile(files[arg[w].id].size, <<arg[w].id, ".mp3">>)]
            /\ pc' = [pc EXCEPT ![w] = "done"]
            /\ served' = served \cup {arg[w].id}
            /\ UNCHANGED calls
       ELSE /\ pc' = [pc EXCEPT ![w] = "dl_title"]
            /\ calls' = [calls EXCEPT ![w] = Append(@, "title")]
            /\ UNCHANGED <<resp, served>>
    /\ UNCHANGED <<YTDLP_CMD, job, servedAtStart, search_cache, files, op,
                   arg, title, prior, validAtStart, hist, accepted>>

\* download_audio(), lines 191-203: the title call has answered; compute
\* the download name and start the extraction.
TitleReturn(w) ==
    /\ pc[w] = "dl_title"
    /\ \E result \in run_ytdlp(YTDLP_CMD, Titles) :
           IF result.exc # ""
           THEN /\ resp' = [resp EXCEPT ![w] = DownloadRaised(result.exc)]
                /\ pc' = [pc EXCEPT ![w] = "done"]
                /\ UNCHANGED <<title, calls>>
           ELSE /\ title' = [title EXCEPT ![w] = sanitize_filename(
                       IF result.stdout # <<>> THEN result.stdout
                       ELSE <<arg[w].id>>)]
                /\ pc' = [pc EXCEPT ![w] = "dl_extract"]
                /\ calls' = [calls EXCEPT ![w] = Append(@, "extract")]
                /\ UNCHANGED resp
    /\ UNCHANGED <<YTDLP_CMD, job, served, servedAtStart, search_cache,
                   files, op, arg, prior, validAtStart, hist, accepted>>

\* A converter that unlinks an mp3 it finds before writing the new one.
ToolWriteAfterUnlink(w, size) ==
    /\ pc[w] = "dl_extract"
    /\ YTDLP_CMD
    /\ files' = [files EXCEPT ![arg[w].id] =
           IF @.exists THEN NoFile ELSE [exists |-> TRUE, size |-> size]]
    /\ UNCHANGED <<YTDLP_CMD, job, served, servedAtStart, search_cache, pc,
                   op, arg, title, resp, calls, prior, validAtStart, hist,
                   accepted>>

\* yt-dlp -x --audio-format mp3 -o CACHE_DIR/<id>.%(ext)s, while it runs
\* for worker w: the converter creates or rewrites <id>.mp3 in place.
ToolWrite(w, size) ==
    /\ pc[w] = "dl_extract"
    /\ YTDLP_CMD
    /\ files[arg[w].id] # [exists |-> TRUE, size |-> size]
    /\ files' = [files EXCEPT ![arg[w].id] = [exists |-> TRUE, size |-> size]]
    /\ UNCHANGED <<YTDLP_CMD, job, served, servedAtStart, search_cache, pc,
                   op, arg, title, resp, calls, prior, validAtStart, hist,
                   accepted>>

\* download_audio(), lines 205-219, run on the answer of the extraction.
DownloadOutcome(f, name, result) ==
    IF result.exc # "" THEN DownloadRaised(result.exc)
    ELSE IF result.returncode # 0 THEN JsonError(500, "Download failed")
    ELSE IF CacheFileExists(f) THEN SentFile(f.size, name \o <<".mp3">>)
    ELSE JsonError(500, "File not found after download")

ExtractReturn(w) ==
    /\ pc[w] = "dl_extract"
    /\ \E result \in run_ytdlp(YTDLP_CMD, {<<>>}) :
           LET r == DownloadOutcome(files[arg[w].id], title[w], result)
           IN  /\ resp' = [resp EXCEPT ![w] = r]
               /\ served' = IF r.kind = "file"
                            THEN served \cup {arg[w].id} ELSE served
    /\ pc' = [pc EXCEPT ![w] = "done"]
    /\ UNCHANGED <<YTDLP_CMD, job, servedAtStart, search_cache, files, op,
                   arg, title, calls, prior, validAtStart, hist, accepted>>

\* The response has gone out; the thread is free for the next request.
Finish(w) ==
    /\ pc[w] = "done"
    /\ pc' = [pc EXCEPT ![w] = "idle"]
    /\ op' = [op EXCEPT ![w] = "none"]
    /\ arg' = [arg EXCEPT ![w] = NoArg]
    /\ title' = [title EXCEPT ![w] = <<>>]
    /\ resp' = [resp EXCEPT ![w] = NoResponse]
    /\ calls' = [calls EXCEPT ![w] = <<>>]
    /\ prior' = [prior EXCEPT ![w] = {}]
    /\ validAtStart' = [validAtStart EXCEPT ![w] = FALSE]
    /\ servedAtStart' = [servedAtStart EXCEPT ![w] = FALSE]
    /\ UNCHANGED <<YTDLP_CMD, job, served, search_cache, files, hist,
                   accepted>>

Next ==
    \/ \E w \in Workers, q \in RawQueries, limit \in LimitArgs :
           SearchBegin(w, q, limit)
    \/ \E w \in Workers : SearchLookup(w)
    \/ \E w \in Workers : SearchReturn(w)
    \/ \E w \in Workers, id \in Ids : DownloadBegin(w, id)
    \/ \E w \in Workers : DownloadCheck(w)
    \/ \E w \in Workers : TitleReturn(w)
    \/ \E w \in Workers, size \in FileSizes : ToolWrite(w, size)
    \/ \E w \in Workers : ExtractReturn(w)
    \/ \E w \in Workers : Finish(w)

Spec == Init /\ [][Next]_vars

(***************************************************************************)
(* Handlers: one request at a time, on longer yt-dlp answers.  The         *)
(* handlers here keep nothing between requests but what yt-dlp printed.    *)
(***************************************************************************)
Min(a, b) == IF a < b THEN a ELSE b
Max(a, b) == IF a > b THEN a ELSE b

PySliceOneMore(s, n) == SubSeq(s, 1, IF n + 1 < Len(s) THEN n + 1 ELSE Len(s))

\* s[:n] of a Python list, n an integer.
PySlice(s, n) ==
    IF n >= 0 THEN SubSeq(s, 1, Min(n, Len(s)))
    ELSE SubSeq(s, 1, Max(0, Len(s) + n))

BandLow == 60
BandHigh == 600
SeedsUsed == 3

InBandInclusive(d) == BandLow <= d /\ d <= BandHigh

\* 60 < duration < 600
InBand(d) == BandLow < d /\ d < BandHigh

ListSong(data) ==
    [id |-> data.id, duration |-> Duration(data),
     duration_str |-> MinSec(Duration(data))]

\* The loop over result.stdout.strip().split("\n") of generate_playlist()
\* and of trending().
RECURSIVE BandSongs(_)
BandSongs(lines) ==
    IF lines = <<>> THEN <<>>
    ELSE LET line == Head(lines)
             rest == BandSongs(Tail(lines))
         IN  IF line.kind # "json" THEN rest
             ELSE IF InBand(Duration(line)) THEN <<ListSong(line)>> \o rest
             ELSE rest

\* for s in all_songs: if s["id"] not in seen: seen.add(..); unique.append(s)
RECURSIVE UniqueLoop(_, _, _)
UniqueLoop(songs, seen, unique) ==
    IF songs = <<>> THEN unique
    ELSE LET s == Head(songs)
         IN  IF s.id \notin seen
             THEN UniqueLoop(Tail(songs), seen \cup {s.id}, Append(unique, s))
             ELSE UniqueLoop(Tail(songs), seen, unique)

\* A dict keyed by id: the first occurrence's place, the last one's value.
UniqueByDict(all) ==
    LET u == UniqueLoop(all, {}, <<>>)
        last(i) == CHOOSE k \in 1 .. Len(all) :
                       /\ all[k].id = i
                       /\ \A j \in k + 1 .. Len(all) : all[j].id # i
    IN  [n \in 1 .. Len(u) |-> all[last(u[n].id)]]

Unique(all) == UniqueLoop(all, {}, <<>>)

PlaylistBody(songs, seeds) == [playlist |-> songs, generated_from |-> seeds]
TrendingBody(songs) == [trending |-> songs]

\* Inputs of the handlers.
SeedLists == UNION { [1 .. k -> {"s"}] : k \in {0, 2, 4} }
PlLimits == {-1, 0, 2, 20}
PlLines ==
    { JsonLine("a", <<200>>), JsonLine("b", <<200>>), JsonLine("c", <<200>>),
      JsonLine("a", <<300>>), JsonLine("c", <<700>>) }
EdgeDurations ==
    { <<>>, <<0>>, <<30>>, <<60>>, <<61>>, <<599>>, <<600>>, <<601>>, <<700>> }
EdgeLines ==
    { JsonLine("a", d) : d \in EdgeDurations }
    \cup {Malformed, Blank, NotObject}
EdgeStdouts == SeqsUpTo(EdgeLines, 2)
\* Longer answers to a search: tracks of several ids, one above 600 s, and
\* lines that are not JSON.
OrderLines == PlLines \cup {Malformed}
SearchStdouts == EdgeStdouts \cup SeqsUpTo(OrderLines, MaxSearchLines)
\* What yt-dlp --get-url prints, character by character.
UrlChars == {"u", " ", "\n"}
UrlStdouts == SeqsUpTo(UrlChars, 3)
\* What yt-dlp --version prints.
Versions == { <<>>, <<"2">>, <<"2", "\n">> }
\* Trimmed queries and limits whose cache keys are compared.
KeyChars == {"a", "_", "1"}
KeyQueries == { q \in SeqsUpTo(KeyChars, MaxKeyLen) : q # <<>> }
KeyLimits == {-1, 0, 1, 10, 11}
KeyPairs == KeyQueries \X KeyLimits

\* generate_playlist(), lines 254-263.
PlaylistBegin(seeds, limit) ==
    /\ job.pc = "idle"
    /\ job' = IF seeds = <<>>
              THEN [job EXCEPT !.op = "playlist", !.pc = "done",
                        !.seeds = seeds, !.limit = limit,
                        !.reply = JsonError(400, "No seed songs provided")]
              ELSE [job EXCEPT !.op = "playlist", !.pc = "loop",
                        !.seeds = seeds, !.limit = limit]
    /\ UNCHANGED <<YTDLP_CMD, server>>

\* generate_playlist(), lines 265-291: one turn of the loop over seeds[:3],
\* on the answer of its run_ytdlp call.  The call is outside any try.
PlaylistSeed ==
    /\ job.op = "playlist" /\ job.pc = "loop"
    /\ job.idx < Min(SeedsUsed, Len(job.seeds))
    /\ \E result \in run_ytdlp(YTDLP_CMD,
                        SeqsUpTo(PlLines, MaxTotalLines - Len(job.printed))) :
           job' = IF result.exc # ""
                  THEN [job EXCEPT !.pc = "done",
                            !.calls = Append(@, "seed"),
                            !.reply = Uncaught(result.exc)]
                  ELSE [job EXCEPT !.idx = @ + 1,
                            !.calls = Append(@, "seed"),
                            !.printed = @ \o result.stdout,
                            !.all_songs = @ \o BandSongs(result.stdout)]
    /\ UNCHANGED <<YTDLP_CMD, server>>

\* generate_playlist(), lines 293-301.
PlaylistRespond ==
    /\ job.op = "playlist" /\ job.pc = "loop"
    /\ job.idx = Min(SeedsUsed, Len(job.seeds))
    /\ job' = [job EXCEPT !.pc = "done",
                   !.reply = JsonOk(PlaylistBody(
                       PySlice(Unique(job.all_songs), job.limit), job.seeds))]
    /\ UNCHANGED <<YTDLP_CMD, server>>

\* trending(), lines 307-339, run on the answer of run_ytdlp.
TrendingOutcome(result) ==
    IF result.exc = "FileNotFoundError"
    THEN JsonError(500, "yt-dlp not installed")
    ELSE IF result.exc # "" THEN Uncaught(result.exc)
    ELSE JsonOk(TrendingBody(BandSongs(result.stdout)))

Trending ==
    /\ job.pc = "idle"
    /\ \E result \in run_ytdlp(YTDLP_CMD, EdgeStdouts) :
           job' = [job EXCEPT !.op = "trending", !.pc = "done",
                       !.calls = <<"top hits 2024 official audio">>,
                       !.result = result, !.reply = TrendingOutcome(result)]
    /\ UNCHANGED <<YTDLP_CMD, server>>

\* search(), lines 110-144, on a non-empty query that missed the cache.
SearchParse ==
    /\ job.pc = "idle"
    /\ \E result \in run_ytdlp(YTDLP_CMD, SearchStdouts) :
           job' = [job EXCEPT !.op = "search", !.pc = "done",
                       !.calls = <<"search">>, !.result = result,
                       !.reply = SearchOutcome(<<"a">>, result)]
    /\ UNCHANGED <<YTDLP_CMD, server>>

\* result.stdout.strip().split("\n")[0], on the stripped text.
RECURSIVE FirstLine(_)
FirstLine(s) ==
    IF s = <<>> \/ s[1] = "\n" THEN <<>>
    ELSE <<s[1]>> \o FirstLine(Tail(s))

StreamBody(url, id) == [stream_url |-> url, video_id |-> id]

\* stream_audio(), lines 150-167, run on the answer of run_ytdlp.  The
\* first line is returned as it is, empty or not.
StreamOutcome(id, result) ==
    IF result.exc = "FileNotFoundError"
    THEN JsonError(500, "yt-dlp not installed")
    ELSE IF result.exc # "" THEN Uncaught(result.exc)
    ELSE IF result.returncode # 0
    THEN JsonError(500, "Failed to get stream URL")
    ELSE JsonOk(StreamBody(FirstLine(Strip(result.stdout)), id))

\* GET /api/stream/<video_id>.
Stream(id) ==
    /\ job.pc = "idle"
    /\ \E result \in run_ytdlp(YTDLP_CMD, UrlStdouts) :
           job' = [job EXCEPT !.op = "stream", !.pc = "done", !.id = id,
                       !.calls = <<"get-url">>, !.result = result,
                       !.reply = StreamOutcome(id, result)]
    /\ UNCHANGED <<YTDLP_CMD, server>>

\* The lines of result.stdout.strip() that are not empty.
NonBlank(lines) == SelectSeq(lines, LAMBDA l : l # Blank)

InfoBody(data) == [id |-> data.id, duration |-> data.duration]

\* get_info(), lines 225-248, run on the answer of run_ytdlp.  json.loads
\* takes the whole stripped output: anything but one JSON value raises
\* JSONDecodeError, a value that is no object raises AttributeError at
\* data.get, and neither has a handler.
InfoOutcome(result) ==
    IF result.exc = "FileNotFoundError"
    THEN JsonError(500, "yt-dlp not installed")
    ELSE IF result.exc # "" THEN Uncaught(result.exc)
    ELSE IF result.returncode # 0 THEN JsonError(500, "Failed to get info")
    ELSE LET text == NonBlank(result.stdout)
         IN  IF Len(text) # 1 \/ text[1] = Malformed
             THEN Uncaught("JSONDecodeError")
             ELSE IF text[1] = NotObject THEN Uncaught("AttributeError")
             ELSE JsonOk(InfoBody(text[1]))

\* GET /api/info/<video_id>.
Info(id) ==
    /\ job.pc = "idle"
    /\ \E result \in run_ytdlp(YTDLP_CMD, EdgeStdouts) :
           job' = [job EXCEPT !.op = "info", !.pc = "done", !.id = id,
                       !.calls = <<"dump-json">>, !.result = result,
                       !.reply = InfoOutcome(result)]
    /\ UNCHANGED <<YTDLP_CMD, server>>

HealthBody(ok, version, n) ==
    [status |-> "ok", ytdlp |-> ok, ytdlp_version |-> version,
     cache_size |-> n]

\* GET /api/health, lines 345-358: yt-dlp --version run directly, without
\* a timeout, and the mp3 files of CACHE_DIR counted.
Health ==
    /\ job.pc = "idle"
    /\ \E result \in { Completed(rc, v) : rc \in {0, 1}, v \in Versions }
                         \cup {Raised("FileNotFoundError")} :
           job' = [job EXCEPT !.op = "health", !.pc = "done",
                       !.result = result,
                       !.reply = JsonOk(HealthBody(
                           result.exc = "" /\ result.returncode = 0,
                           IF result.exc = "" THEN <<Strip(result.stdout)>>
                           ELSE <<>>,
                           Cardinality({ i \in Ids : files[i].exists })))]
    /\ UNCHANGED <<YTDLP_CMD, server>>

\* search(), line 95, for the (query, limit) of two requests.
CacheKeys ==
    /\ job.pc = "idle"
    /\ \E p \in KeyPairs, r \in KeyPairs :
           job' = [job EXCEPT !.op = "keys", !.pc = "done",
                       !.pairs = <<p, r>>,
                       !.keys = <<cache_key(p[1], p[2]),
                                  cache_key(r[1], r[2])>>]
    /\ UNCHANGED <<YTDLP_CMD, server>>

HandlersNext ==
    \/ \E seeds \in SeedLists, limit \in PlLimits : PlaylistBegin(seeds, limit)
    \/ PlaylistSeed
    \/ PlaylistRespond
    \/ Trending
    \/ SearchParse
    \/ \E id \in Ids : Stream(id)
    \/ \E id \in Ids : Info(id)
    \/ Health
    \/ CacheKeys

Handlers == Init /\ [][HandlersNext]_vars

(***************************************************************************)
(* Properties of the threaded server (Spec).                               *)
(***************************************************************************)
Done(w, route) == op[w] = route /\ pc[w] = "done"

\* C1: once a search for (query, limit) has returned a non-empty result,
\* every search for the same (query, limit) that begins later makes no
\* yt-dlp call and returns that same result.
CacheHit ==
    \A w \in Workers :
        (op[w] = "search" /\ prior[w] # {}) =>
            /\ calls[w] = <<>>
            /\ pc[w] = "done" =>
                   /\ resp[w].kind = "json"
                   /\ \A r \in prior[w] : resp[w].body.results = r

\* C2: the search cache never holds an entry whose result list is empty.
NoEmptyCached ==
    \A k \in DOMAIN search_cache : search_cache[k].results # <<>>

\* C3: a download that begins while <id>.mp3 is a valid cache entry (present,
\* more than 10,000 bytes) makes no yt-dlp call and returns the local file,
\* whatever the other threads do.
CacheFirstDownload ==
    \A w \in Workers :
        (op[w] = "download" /\ validAtStart[w]) =>
            /\ calls[w] = <<>>
            /\ pc[w] \in {"dl_check", "done"}
            /\ pc[w] = "done" => resp[w].kind = "file"

\* A download that began on a valid entry has returned the file while
\* another thread's extraction for the same id is still running.
CacheFirstDownloadWitness ==
    \E w, v \in Workers :
        /\ Done(w, "download") /\ validAtStart[w]
        /\ resp[w].kind = "file" /\ calls[w] = <<>>
        /\ v # w /\ pc[v] = "dl_extract" /\ arg[v].id = arg[w].id

\* C4: at most one extraction per id is in flight at any time.
SingleFlight ==
    \A w, v \in Workers :
        (w # v /\ pc[w] = "dl_extract" /\ pc[v] = "dl_extract")
            => arg[w].id # arg[v].id

\* C5: a download ends in failure only after both the extraction and a
\* direct-stream-URL call have been made and have failed.
RedirectFallback ==
    \A w \in Workers :
        (Done(w, "download") /\ resp[w].kind \in {"error", "uncaught"}) =>
            /\ \E i \in 1 .. Len(calls[w]) : calls[w][i] = "extract"
            /\ \E i \in 1 .. Len(calls[w]) : calls[w][i] = "get-url"

\* C6: a local file is returned only if it is larger than 10,000 bytes when
\* it is returned.
ValidityPredicate ==
    \A w \in Workers :
        (Done(w, "download") /\ resp[w].kind = "file") => resp[w].size > 10000

IsBlank(q) == \A i \in 1 .. Len(q) : q[i] = " "

\* C10: a search whose query is empty or all whitespace answers 400, makes
\* no yt-dlp call, and leaves the search cache as it was.
EmptyQueryRejected ==
    /\ [](\A w \in Workers :
              (op[w] = "search" /\ IsBlank(arg[w].q)) =>
                  /\ calls[w] = <<>>
                  /\ pc[w] \in {"search_lookup", "done"}
                  /\ pc[w] = "done" =>
                         resp[w].status = 400 /\ resp[w].kind = "error")
    /\ [][\A w \in Workers :
              (op[w] = "search" /\ IsBlank(arg[w].q) /\ pc'[w] # pc[w])
                  => search_cache' = search_cache]_vars

\* C11: a search that called yt-dlp returns a success response, whatever
\* yt-dlp answered (non-zero exit, timeout, tool missing, malformed lines).
SearchAbsorbsFailures ==
    \A w \in Workers :
        (Done(w, "search") /\ calls[w] # <<>>) =>
            resp[w].kind = "json" /\ resp[w].status = 200

\* C15: a search cache entry, once stored, is never changed or removed,
\* concurrent searches for one uncached key included.
SearchCacheWriteOnce ==
    [][\A k \in DOMAIN search_cache :
           /\ k \in DOMAIN search_cache'
           /\ search_cache'[k] = search_cache[k]]_vars

\* C16: when the extraction call has returned and <id>.mp3 exists with more
\* than 10,000 bytes, the download returns that file, whatever exit status
\* yt-dlp reported.
PostExtractionVerified ==
    [][\A w \in Workers :
           (/\ pc[w] = "dl_extract" /\ pc'[w] = "done"
            /\ ValidAudio(files[arg[w].id])
            /\ resp'[w].kind # "uncaught"
            /\ resp'[w] # JsonError(500, "yt-dlp not installed"))
               => resp'[w].kind = "file"]_vars

\* C19: no step removes a file of CACHE_DIR, a file of an id is created or
\* written only while a download of that id is being handled, and a download
\* that begins after a download of its id has returned the local file makes
\* no yt-dlp call and returns the file.
AudioCachePersists ==
    /\ [](\A w \in Workers :
              (op[w] = "download" /\ servedAtStart[w]) =>
                  /\ calls[w] = <<>>
                  /\ pc[w] \in {"dl_check", "done"}
                  /\ pc[w] = "done" => resp[w].kind = "file")
    /\ [][\A i \in Ids :
              /\ files[i].exists => files'[i].exists
              /\ files'[i] # files[i] =>
                     \E w \in Workers : op[w] = "download" /\ arg[w].id = i
          ]_vars

\* A download has been answered from the cache, without a yt-dlp call, after
\* an earlier download of the same id had extracted and returned the file.
AudioCachePersistsWitness ==
    \E w \in Workers :
        /\ Done(w, "download") /\ servedAtStart[w]
        /\ resp[w].kind = "file" /\ calls[w] = <<>>
        /\ files[arg[w].id].exists
        /\ accepted >= 2

(***************************************************************************)
(* Properties of the handlers (Handlers).                                  *)
(***************************************************************************)
PlaylistDone ==
    job.op = "playlist" /\ job.pc = "done" /\ job.reply.kind = "json"

\* The places in the printed lines of the well-formed records inside the
\* 60-600 s band whose id no earlier such record has.
FirstSeen(lines) ==
    LET ok(k) == /\ lines[k].kind = "json"
                 /\ lines[k].duration # <<>>
                 /\ 60 < lines[k].duration[1] /\ lines[k].duration[1] < 600
    IN  { k \in 1 .. Len(lines) :
              ok(k) /\ \A j \in 1 .. k - 1 : ok(j) => lines[j].id # lines[k].id }

\* The n-th smallest member of a set of numbers.
Nth(S, n) == CHOOSE k \in S : Cardinality({ j \in S : j <= k }) = n

\* C7: the playlist returned for a limit >= 0 has no two tracks with one id
\* and is the first-occurrence subsequence of the filtered lines yt-dlp
\* printed, in seed order then output order, cut to limit.
PlaylistDedupStable ==
    (PlaylistDone /\ job.limit >= 0) =>
        LET out == job.reply.body.playlist
            first == FirstSeen(job.printed)
        IN  /\ Len(out) = Min(job.limit, Cardinality(first))
            /\ \A i, j \in 1 .. Len(out) : i # j => out[i].id # out[j].id
            /\ \A i \in 1 .. Len(out) :
                   /\ out[i].id = job.printed[Nth(first, i)].id
                   /\ out[i].duration = job.printed[Nth(first, i)].duration[1]

\* Ids a, b, a, c were printed and the playlist is a, b, c, the a kept
\* being the first one.
PlaylistDedupStableWitness ==
    /\ PlaylistDone /\ job.limit = 20
    /\ job.printed = << JsonLine("a", <<200>>), JsonLine("b", <<200>>),
                        JsonLine("a", <<300>>), JsonLine("c", <<200>>) >>
    /\ [i \in 1 .. Len(job.reply.body.playlist) |->
            job.reply.body.playlist[i].id] = <<"a", "b", "c">>
    /\ job.reply.body.playlist[1].duration = 200

\* C8: for a positive limit the playlist has at most limit tracks.
PlaylistBounded ==
    (PlaylistDone /\ job.limit > 0) =>
        Len(job.reply.body.playlist) <= job.limit

\* The seeds gave three unique tracks and the limit is two.
PlaylistBoundedWitness ==
    /\ PlaylistDone /\ job.limit = 2
    /\ Cardinality(FirstSeen(job.printed)) = 3
    /\ Len(job.reply.body.playlist) = 2

JsonPlaces(lines) == { k \in 1 .. Len(lines) : lines[k].kind = "json" }
Seconds(line) == IF line.duration = <<>> THEN 0 ELSE line.duration[1]

\* C9: a track is in a trending or playlist response only if its duration
\* is inside the 60-600 s band (60 and 600 themselves are outside), and a
\* track yt-dlp printed is in a search response exactly when its duration,
\* 0 when unknown, is at most 600.
DurationFilter ==
    /\ (job.op = "trending" /\ job.pc = "done" /\ job.reply.kind = "json") =>
           \A i \in 1 .. Len(job.reply.body.trending) :
               /\ 60 < job.reply.body.trending[i].duration
               /\ job.reply.body.trending[i].duration < 600
    /\ PlaylistDone =>
           \A i \in 1 .. Len(job.reply.body.playlist) :
               /\ 60 < job.reply.body.playlist[i].duration
               /\ job.reply.body.playlist[i].duration < 600
    /\ (job.op = "search" /\ job.pc = "done" /\ job.reply.kind = "json") =>
           LET out == job.reply.body.results
               lines == job.result.stdout
           IN  /\ \A k \in JsonPlaces(lines) :
                      (Seconds(lines[k]) <= 600) <=>
                          \E i \in 1 .. Len(out) :
                              /\ out[i].id = lines[k].id
                              /\ out[i].duration = Seconds(lines[k])
               /\ \A i \in 1 .. Len(out) : out[i].duration <= 600

\* yt-dlp printed a 30 s and a 700 s track and search kept the first only.
DurationFilterWitness ==
    /\ job.op = "search"
    /\ job.pc = "done" /\ job.reply.kind = "json"
    /\ job.result.stdout = << JsonLine("a", <<30>>), JsonLine("a", <<700>>) >>
    /\ Len(job.reply.body.results) = 1
    /\ job.reply.body.results[1].duration = 30

\* C12: every request that called yt-dlp ends in a structured success or
\* error response of its handler; no exception of the call or of the
\* parsing of its output leaves the handler.
NoUncaughtFaults ==
    /\ \A w \in Workers :
           (pc[w] = "done" /\ calls[w] # <<>>) =>
               resp[w].kind \in {"json", "file", "error"}
    /\ (job.pc = "done" /\ job.calls # <<>>) =>
           job.reply.kind \in {"json", "error"}

\* C13: stream answers 200 only with a non-empty stream_url, and answers an
\* error (500 or 404) whenever yt-dlp exits non-zero or prints no URL.
StreamResolved ==
    (job.op = "stream" /\ job.pc = "done") =>
        /\ job.reply.status = 200 => job.reply.body.stream_url # <<>>
        /\ (/\ job.result.exc = ""
            /\ \/ job.result.returncode # 0
               \/ \A k \in 1 .. Len(job.result.stdout) :
                      job.result.stdout[k] \in {" ", "\n"})
               => job.reply.kind = "error" /\ job.reply.status \in {500, 404}

\* C14: a trending request whose response has no tracks has issued the
\* fallback query after the primary one.
TrendingFallback ==
    (/\ job.op = "trending" /\ job.pc = "done"
     /\ job.reply.kind = "json" /\ job.reply.body.trending = <<>>)
        => Len(job.calls) = 2

\* C17: no search response holds two tracks with the same id.
SearchDeduplicated ==
    (job.op = "search" /\ job.pc = "done" /\ job.reply.kind = "json") =>
        \A i, j \in 1 .. Len(job.reply.body.results) :
            i # j =>
                job.reply.body.results[i].id # job.reply.body.results[j].id

\* The places of the printed lines that are records of at most 600 s.
KeptPlaces(lines) ==
    { k \in JsonPlaces(lines) : Seconds(lines[k]) <= 600 }

\* C18: the tracks of a search response are exactly the well-formed records
\* yt-dlp printed that pass the duration filter, in the order printed; lines
\* that are not JSON are skipped and change nothing else.
SearchPreservesOrder ==
    (job.op = "search" /\ job.pc = "done" /\ job.reply.kind = "json") =>
        LET out == job.reply.body.results
            lines == job.result.stdout
            kept == KeptPlaces(lines)
        IN  /\ Len(out) = Cardinality(kept)
            /\ \A i \in 1 .. Len(out) :
                   /\ out[i].id = lines[Nth(kept, i)].id
                   /\ out[i].duration = Seconds(lines[Nth(kept, i)])

\* yt-dlp printed c, a line that is not JSON, a, a 700 s track and b, and
\* the response is c, a, b.
SearchPreservesOrderWitness ==
    /\ job.op = "search" /\ job.pc = "done" /\ job.reply.kind = "json"
    /\ job.result.stdout =
           << JsonLine("c", <<200>>), Malformed, JsonLine("a", <<300>>),
              JsonLine("c", <<700>>), JsonLine("b", <<200>>) >>
    /\ [i \in 1 .. Len(job.reply.body.results) |->
            job.reply.body.results[i].id] = <<"c", "a", "b">>
    /\ job.reply.body.results[2].duration = 300

\* C20: two (trimmed query, limit) pairs with the same cache key are the
\* same pair, queries holding "_" and digits included.
CacheKeySeparation ==
    job.op = "keys" =>
        (job.keys[1] = job.keys[2] => job.pairs[1] = job.pairs[2])

\* The keys of ("_1", 0) and ("_", 10), made of the same characters, differ.
CacheKeySeparationWitness ==
    /\ job.op = "keys"
    /\ job.pairs = << << <<"_", "1">>, 0 >>, << <<"_">>, 10 >> >>
    /\ job.keys = << <<"_", "1", "_", "0">>, <<"_", "_", "1", "0">> >>

====
